---- MODULE Spec2Model ----
(***************************************************************************)
(* Event-driven order system: EventBus, OrderService, EmailService,        *)
(* ShippingService, InventoryService and their wiring (index.js).          *)
(*                                                                         *)
(* JavaScript runs every API call and every timer callback to completion,  *)
(* so each of them is one action.  Inside an action the synchronous call   *)
(* tree (emit -> forEach -> listener -> nested emit ...) is evaluated by   *)
(* the recursive operators Emit / ForEach / Call over a machine record m.  *)
(* Listener arrays are heap objects inside m (m.heap), because forEach     *)
(* keeps iterating the array object it started on while on() pushes onto   *)
(* the registered array and off() registers a new filtered array.          *)
(***************************************************************************)
EXTENDS Integers, Sequences, FiniteSets, TLC

VARIABLES
  events,        \* EventBus.events: active eventName -> array of listeners
  orders,        \* OrderService.orders: orderId -> order record
  sentEmails,    \* EmailService.sentEmails
  inventory,     \* InventoryService.inventory: item -> [stock, price, category]
  reservations,  \* InventoryService.reservations: orderId -> reservation
  shipments,     \* ShippingService.shipments: orderId -> shipment
  timers,        \* pending setTimeout callbacks
  now,           \* the clock read by new Date()
  op,            \* the call made by the last action
  ret,           \* how that call returned: [exc, val]
  calls,         \* listener invocations made during the last action, in order
  pubs,          \* emit calls made during the last action, in order
  errs,          \* console.error lines written by emit's catch in the last action
  faulted,       \* event names for which emit's catch has ever written a line
  updates,       \* updateOrderStatus calls the client has made
  outcome,       \* orderId -> the event that answered its last reservation attempt
  history,       \* [follow: event names, emits: the emits of those events so far]
  seen           \* what the observing listeners read during the last action

vars == <<events, orders, sentEmails, inventory, reservations, shipments,
          timers, now, op, ret, calls, pubs, errs, faulted, updates, outcome,
          history, seen>>

-----------------------------------------------------------------------------
(* Bounds *)

MaxSubs == 3      \* subscriptions held by the bus in the EventBus specification
MaxTime == 2      \* last clock reading
MaxUpdates == 1   \* updateOrderStatus calls made by the client

Randoms == {7}    \* the draws of Math.floor(Math.random() * 1000) that are followed

-----------------------------------------------------------------------------
(* Values *)

Undefined == "undefined"
NoError == ""

EmptyMap == [x \in {} |-> x]

Put(f, k, v) == [x \in (DOMAIN f) \cup {k} |-> IF x = k THEN v ELSE f[x]]

Del(f, k) == [x \in (DOMAIN f) \ {k} |-> f[x]]

\* obj.field of a JavaScript object: undefined when the property is absent
Get(obj, field) == IF field \in DOMAIN obj THEN obj[field] ELSE Undefined

\* !obj.field for the string-valued fields of an order: absent or "" is falsy
Falsy(obj, field) == field \notin DOMAIN obj \/ obj[field] = ""

\* { ...a, ...b }
Spread(a, b) == [x \in (DOMAIN a) \cup (DOMAIN b) |-> IF x \in DOMAIN b THEN b[x] ELSE a[x]]

RECURSIVE SumLen(_, _)
SumLen(f, S) ==
  IF S = {} THEN 0
  ELSE LET t == CHOOSE x \in S : TRUE IN Len(f[t]) + SumLen(f, S \ {t})

\* number of subscriptions in a registry
Size(reg) == SumLen(reg, DOMAIN reg)

\* number of occurrences of x in the sequence s
Count(s, x) == Cardinality({i \in DOMAIN s : s[i] = x})

\* the listeners subscribed to t in the registry reg, in array order
Subscribers(reg, t) == IF t \in DOMAIN reg THEN reg[t] ELSE <<>>

-----------------------------------------------------------------------------
(* Event names and listeners *)

BusTopics == {"T1", "T2"}

SysTopics == {"order:created", "order:status_updated", "order:inventory_reserved",
              "order:inventory_unavailable", "order:out_of_stock",
              "inventory:low_stock", "inventory:stock_added",
              "inventory:product_added", "order:shipped", "order:delivered"}

TopicSeq == <<"T1", "T2",
              "order:created", "order:status_updated", "order:inventory_reserved",
              "order:inventory_unavailable", "order:out_of_stock",
              "inventory:low_stock", "inventory:stock_added",
              "inventory:product_added", "order:shipped", "order:delivered">>

TopicIndex(t) == CHOOSE i \in DOMAIN TopicSeq : TopicSeq[i] = t

\* Listener closures a client of the bus registers:
\*   rec      returns normally                 () => { called = true }
\*   boom     throws                           () => { throw new Error("Test error") }
\*   adder    subscribes rec to T1             () => bus.on("T1", rec)
\*   remover  unsubscribes rec from T1         () => bus.off("T1", rec)
\*   nested   publishes T2 with its payload    (p) => bus.emit("T2", p)
BusListeners == {"rec", "boom", "adder", "remover", "nested"}

BusPayloads == {"p1", "p2"}

\* a listener that re-publishes the event it is subscribed to never returns
BusSubscriptions == (BusTopics \X BusListeners) \ {<<"T2", "nested">>}

-----------------------------------------------------------------------------
(* The machine a synchronous call tree runs on *)

Machine ==
  [ev |-> [t \in DOMAIN events |-> TopicIndex(t)],
   heap |-> [i \in DOMAIN TopicSeq |->
               IF TopicSeq[i] \in DOMAIN events THEN events[TopicSeq[i]] ELSE <<>>],
   orders |-> orders, sentEmails |-> sentEmails, inventory |-> inventory,
   reservations |-> reservations, shipments |-> shipments, timers |-> timers,
   now |-> now, calls |-> <<>>, pubs |-> <<>>, errs |-> <<>>, faulted |-> faulted,
   seen |-> <<>>]

\* this.events as the next action finds it
Registry(m) == [t \in DOMAIN m.ev |-> m.heap[m.ev[t]]]

\* what a call returns when it returns no value; the records a call may return
\* instead are compared with it, which the string Undefined does not allow
Void == EmptyMap

Return(m, val) == [m |-> m, exc |-> NoError, val |-> val]

Throw(m, error) == [m |-> m, exc |-> error, val |-> Void]

RECURSIVE Emit(_, _, _)
RECURSIVE ForEach(_, _, _, _, _, _, _)
RECURSIVE Call(_, _, _)

-----------------------------------------------------------------------------
(* EventBus *)

\* unshift instead of push
PushFront(array, listener) == <<listener>> \o array

\* this.events[eventName].push(listener)
Push(array, listener) == Append(array, listener)

\* EventBus.on
On(m, eventName, listener) ==
  LET m1 == IF eventName \notin DOMAIN m.ev
            THEN [m EXCEPT !.heap = Append(@, <<>>),
                           !.ev = Put(@, eventName, Len(m.heap) + 1)]
            ELSE m
      a == m1.ev[eventName]
  IN [m1 EXCEPT !.heap[a] = Push(@, listener)]

\* this.events[eventName].filter((l) => l !== listener)
Filter(array, listener) == SelectSeq(array, LAMBDA l : l # listener)

\* off without the delete of an emptied entry
OffKeepKey(m, eventName, listener) ==
  IF eventName \in DOMAIN m.ev
  THEN [m EXCEPT !.heap = Append(@, Filter(m.heap[m.ev[eventName]], listener)),
                 !.ev[eventName] = Len(m.heap) + 1]
  ELSE m

\* EventBus.off: the filtered array is a new object
Off(m, eventName, listener) ==
  IF eventName \in DOMAIN m.ev
  THEN LET filtered == Filter(m.heap[m.ev[eventName]], listener)
           m1 == [m EXCEPT !.heap = Append(@, filtered),
                           !.ev[eventName] = Len(m.heap) + 1]
       IN IF Len(filtered) = 0
          THEN [m1 EXCEPT !.ev = Del(@, eventName)]
          ELSE m1
  ELSE m

\* EventBus.getEvents
getEvents == DOMAIN events

\* no try/catch around the listener call
TryCatchRethrow(r, eventName) == r

\* a catch that also drops the subscribers of the event whose listener failed
TryCatchDrop(r, eventName) ==
  IF r.exc # NoError
  THEN Return([r.m EXCEPT !.errs = Append(@, [t |-> eventName, error |-> r.exc]),
                          !.faulted = @ \cup {eventName},
                          !.ev = Del(@, eventName)],
              Void)
  ELSE r

\* try { listener(payload) } catch (error) { console.error(...) }
TryCatch(r, eventName) ==
  IF r.exc # NoError
  THEN Return([r.m EXCEPT !.errs = Append(@, [t |-> eventName, error |-> r.exc]),
                          !.faulted = @ \cup {eventName}],
              Void)
  ELSE r

\* Array.prototype.forEach reads the length once, before the first callback
ForEachLen(array) == Len(array)

-----------------------------------------------------------------------------
(* OrderService *)

RECURSIVE createOrder(_, _)
RECURSIVE updateOrderStatus(_, _, _)

\* createOrder that does not look at email
createOrderNoEmailCheck(m, orderData) ==
  IF Falsy(orderData, "orderId") \/ Falsy(orderData, "item")
  THEN Throw(m, "Missing required order fields: orderId, email, item")
  ELSE IF orderData.orderId \in DOMAIN m.orders
  THEN Throw(m, "Order already exists")
  ELSE LET enrichedOrder == Spread(orderData, [timestamp |-> m.now, status |-> "created"])
           m1 == [m EXCEPT !.orders = Put(@, orderData.orderId, enrichedOrder)]
           r == Emit(m1, "order:created", enrichedOrder)
       IN IF r.exc # NoError THEN r ELSE Return(r.m, enrichedOrder)

\* createOrder without the duplicate check: a stored order is replaced
createOrderOverwrite(m, orderData) ==
  IF Falsy(orderData, "orderId") \/ Falsy(orderData, "email") \/ Falsy(orderData, "item")
  THEN Throw(m, "Missing required order fields: orderId, email, item")
  ELSE LET enrichedOrder == Spread(orderData, [timestamp |-> m.now, status |-> "created"])
           m1 == [m EXCEPT !.orders = Put(@, orderData.orderId, enrichedOrder)]
           r == Emit(m1, "order:created", enrichedOrder)
       IN IF r.exc # NoError THEN r ELSE Return(r.m, enrichedOrder)

\* createOrder that publishes the order as it was passed in
createOrderEmitsInput(m, orderData) ==
  IF Falsy(orderData, "orderId") \/ Falsy(orderData, "email") \/ Falsy(orderData, "item")
  THEN Throw(m, "Missing required order fields: orderId, email, item")
  ELSE IF orderData.orderId \in DOMAIN m.orders
  THEN Throw(m, "Order already exists")
  ELSE LET enrichedOrder == Spread(orderData, [timestamp |-> m.now, status |-> "created"])
           m1 == [m EXCEPT !.orders = Put(@, orderData.orderId, enrichedOrder)]
           r == Emit(m1, "order:created", orderData)
       IN IF r.exc # NoError THEN r ELSE Return(r.m, enrichedOrder)

createOrderReturnsExisting(m, orderData) ==
  IF Falsy(orderData, "orderId") \/ Falsy(orderData, "email") \/ Falsy(orderData, "item")
  THEN Throw(m, "Missing required order fields: orderId, email, item")
  ELSE IF orderData.orderId \in DOMAIN m.orders
  THEN Return(m, m.orders[orderData.orderId])
  ELSE LET enrichedOrder == Spread(orderData, [timestamp |-> m.now, status |-> "created"])
           m1 == [m EXCEPT !.orders = Put(@, orderData.orderId, enrichedOrder)]
           r == Emit(m1, "order:created", enrichedOrder)
       IN IF r.exc # NoError THEN r ELSE Return(r.m, enrichedOrder)

\* OrderService.createOrder
createOrder(m, orderData) ==
  IF Falsy(orderData, "orderId") \/ Falsy(orderData, "email") \/ Falsy(orderData, "item")
  THEN Throw(m, "Missing required order fields: orderId, email, item")
  ELSE IF orderData.orderId \in DOMAIN m.orders
  THEN Throw(m, "Order already exists")
  ELSE LET enrichedOrder == Spread(orderData, [timestamp |-> m.now, status |-> "created"])
           m1 == [m EXCEPT !.orders = Put(@, orderData.orderId, enrichedOrder)]
           r == Emit(m1, "order:created", enrichedOrder)
       IN IF r.exc # NoError THEN r ELSE Return(r.m, enrichedOrder)

\* updateOrderStatus that stores a record for an orderId it does not know
updateOrderStatusUpsert(m, orderId, status) ==
  LET known == IF orderId \in DOMAIN m.orders THEN m.orders[orderId] ELSE [orderId |-> orderId]
      order == Spread(known, [status |-> status, lastUpdated |-> m.now])
      m1 == [m EXCEPT !.orders = Put(@, orderId, order)]
      r == Emit(m1, "order:status_updated",
                [orderId |-> orderId, status |-> status, order |-> order])
  IN IF r.exc # NoError THEN r ELSE Return(r.m, Void)

\* OrderService.updateOrderStatus
updateOrderStatus(m, orderId, status) ==
  IF orderId \in DOMAIN m.orders
  THEN LET order == Spread(m.orders[orderId], [status |-> status, lastUpdated |-> m.now])
           m1 == [m EXCEPT !.orders[orderId] = order]
           r == Emit(m1, "order:status_updated",
                     [orderId |-> orderId, status |-> status, order |-> order])
       IN IF r.exc # NoError THEN r ELSE Return(r.m, Void)
  ELSE Return(m, Void)

-----------------------------------------------------------------------------
(* EmailService; subject and body are formatted text and are left out *)

\* EmailService.sendConfirmation
sendConfirmation(m, orderData) ==
  Return([m EXCEPT !.sentEmails = Append(@,
            [type |-> "confirmation", to |-> Get(orderData, "email"),
             timestamp |-> m.now, orderId |-> Get(orderData, "orderId")])],
         Void)

\* EmailService.sendShippingNotification
sendShippingNotification(m, orderData) ==
  Return([m EXCEPT !.sentEmails = Append(@,
            [type |-> "shipping", to |-> Get(orderData, "email"),
             timestamp |-> m.now, orderId |-> Get(orderData, "orderId"),
             trackingNumber |-> Get(orderData, "trackingNumber")])],
         Void)

\* EmailService.sendStatusUpdate
sendStatusUpdate(m, data) ==
  IF Get(data, "status") = "cancelled" \/ Get(data, "status") = "delivered"
  THEN IF "order" \notin DOMAIN data
       THEN Throw(m, "TypeError: Cannot read properties of undefined")
       ELSE Return([m EXCEPT !.sentEmails = Append(@,
                      [type |-> "status_update", to |-> Get(data.order, "email"),
                       timestamp |-> m.now, orderId |-> Get(data, "orderId"),
                       status |-> data.status])],
                   Void)
  ELSE Return(m, Void)

-----------------------------------------------------------------------------
(* ShippingService *)

\* ShippingService.processShipping: setTimeout(() => {...}, 1000)
processShipping(m, orderData) ==
  Return([m EXCEPT !.timers = Append(@, [kind |-> "ship", orderData |-> orderData])],
         Void)

\* ShippingService.generateTrackingNumber: "TRK" + Date.now() + three random digits
generateTrackingNumber(m, random) == <<"TRK", m.now, random>>

\* ShippingService.calculateDeliveryDate: three days from now
calculateDeliveryDate(m) == [from |-> m.now, days |-> 3]

\* scheduleDelivery that delivers at once instead of setting a timer
scheduleDeliveryNow(m, orderId, deliveryDate) ==
  IF orderId \in DOMAIN m.shipments
  THEN LET shipment == Spread(m.shipments[orderId],
                              [status |-> "delivered", deliveredAt |-> m.now])
       IN Emit([m EXCEPT !.shipments[orderId] = shipment], "order:delivered", shipment).m
  ELSE m

\* scheduleDelivery that sets no timer
scheduleDeliveryNever(m, orderId, deliveryDate) == m

\* ShippingService.scheduleDelivery: setTimeout(() => {...}, 5000)
scheduleDelivery(m, orderId, deliveryDate) ==
  [m EXCEPT !.timers = Append(@, [kind |-> "deliver", orderId |-> orderId])]

\* a shipping callback that publishes the shipment under the name order:delivered
shipCallbackWrongEvent(m, orderData, random) ==
  LET shipmentData == [orderId |-> Get(orderData, "orderId"),
                       address |-> Get(orderData, "address"),
                       item |-> Get(orderData, "item"),
                       trackingNumber |-> generateTrackingNumber(m, random),
                       status |-> "shipped",
                       shippedAt |-> m.now,
                       estimatedDelivery |-> calculateDeliveryDate(m)]
      m1 == [m EXCEPT !.shipments = Put(@, shipmentData.orderId, shipmentData)]
      r == Emit(m1, "order:delivered", Spread(orderData, shipmentData))
  IN IF r.exc # NoError
     THEN r
     ELSE Return(scheduleDelivery(r.m, shipmentData.orderId, shipmentData.estimatedDelivery),
                 Void)

\* the callback of processShipping's timer
shipCallback(m, orderData, random) ==
  LET shipmentData == [orderId |-> Get(orderData, "orderId"),
                       address |-> Get(orderData, "address"),
                       item |-> Get(orderData, "item"),
                       trackingNumber |-> generateTrackingNumber(m, random),
                       status |-> "shipped",
                       shippedAt |-> m.now,
                       estimatedDelivery |-> calculateDeliveryDate(m)]
      m1 == [m EXCEPT !.shipments = Put(@, shipmentData.orderId, shipmentData)]
      r == Emit(m1, "order:shipped", Spread(orderData, shipmentData))
  IN IF r.exc # NoError
     THEN r
     ELSE Return(scheduleDelivery(r.m, shipmentData.orderId, shipmentData.estimatedDelivery),
                 Void)

\* the callback of scheduleDelivery's timer
deliverCallback(m, orderId) ==
  IF orderId \in DOMAIN m.shipments
  THEN LET shipment == Spread(m.shipments[orderId],
                              [status |-> "delivered", deliveredAt |-> m.now])
           m1 == [m EXCEPT !.shipments[orderId] = shipment]
       IN Emit(m1, "order:delivered", shipment)
  ELSE Return(m, Void)

-----------------------------------------------------------------------------
(* InventoryService *)

lowStockThreshold == 5

\* InventoryService.constructor: this.inventory, prices in cents
InitialInventory ==
  [i \in {"MacBook Pro", "iPhone 15", "iPad Air", "AirPods Pro", "Apple Watch"} |->
     CASE i = "MacBook Pro" -> [stock |-> 10, price |-> 239999, category |-> "laptops"]
       [] i = "iPhone 15" -> [stock |-> 25, price |-> 99999, category |-> "phones"]
       [] i = "iPad Air" -> [stock |-> 15, price |-> 59999, category |-> "tablets"]
       [] i = "AirPods Pro" -> [stock |-> 50, price |-> 24999, category |-> "accessories"]
       [] i = "Apple Watch" -> [stock |-> 30, price |-> 39999, category |-> "wearables"]]

\* checkAndReserveItem that takes two units off the stock
checkAndReserveItemTakesTwo(m, orderData) ==
  LET name == Get(orderData, "item")
  IN IF name \notin DOMAIN m.inventory
     THEN Emit(m, "order:inventory_unavailable", orderData)
     ELSE IF m.inventory[name].stock <= 0
     THEN Emit(m, "order:out_of_stock", orderData)
     ELSE LET m1 == [m EXCEPT !.inventory[name].stock = @ - 2,
                              !.reservations = Put(@, Get(orderData, "orderId"),
                                   [item |-> name, quantity |-> 1,
                                    price |-> m.inventory[name].price,
                                    reservedAt |-> m.now, status |-> "reserved"])]
              r1 == IF m1.inventory[name].stock <= lowStockThreshold
                    THEN Emit(m1, "inventory:low_stock",
                              [item |-> name, currentStock |-> m1.inventory[name].stock,
                               threshold |-> lowStockThreshold])
                    ELSE Return(m1, Void)
          IN IF r1.exc # NoError
             THEN r1
             ELSE Emit(r1.m, "order:inventory_reserved", orderData)

\* checkAndReserveItem that also raises the low-stock alert when it refuses
checkAndReserveItemAlertsWhenOut(m, orderData) ==
  LET name == Get(orderData, "item")
  IN IF name \notin DOMAIN m.inventory
     THEN Emit(m, "order:inventory_unavailable", orderData)
     ELSE IF m.inventory[name].stock <= 0
     THEN Emit(Emit(m, "inventory:low_stock",
                    [item |-> name, currentStock |-> m.inventory[name].stock,
                     threshold |-> lowStockThreshold]).m,
               "order:out_of_stock", orderData)
     ELSE LET m1 == [m EXCEPT !.inventory[name].stock = @ - 1,
                              !.reservations = Put(@, Get(orderData, "orderId"),
                                   [item |-> name, quantity |-> 1,
                                    price |-> m.inventory[name].price,
                                    reservedAt |-> m.now, status |-> "reserved"])]
              r1 == IF m1.inventory[name].stock <= lowStockThreshold
                    THEN Emit(m1, "inventory:low_stock",
                              [item |-> name, currentStock |-> m1.inventory[name].stock,
                               threshold |-> lowStockThreshold])
                    ELSE Return(m1, Void)
          IN IF r1.exc # NoError
             THEN r1
             ELSE Emit(r1.m, "order:inventory_reserved", orderData)

\* checkAndReserveItem that answers out_of_stock for a name it does not know
checkAndReserveItemUnknownIsOut(m, orderData) ==
  LET name == Get(orderData, "item")
  IN IF name \notin DOMAIN m.inventory
     THEN Emit(m, "order:out_of_stock", orderData)
     ELSE IF m.inventory[name].stock <= 0
     THEN Emit(m, "order:out_of_stock", orderData)
     ELSE LET m1 == [m EXCEPT !.inventory[name].stock = @ - 1,
                              !.reservations = Put(@, Get(orderData, "orderId"),
                                   [item |-> name, quantity |-> 1,
                                    price |-> m.inventory[name].price,
                                    reservedAt |-> m.now, status |-> "reserved"])]
              r1 == IF m1.inventory[name].stock <= lowStockThreshold
                    THEN Emit(m1, "inventory:low_stock",
                              [item |-> name, currentStock |-> m1.inventory[name].stock,
                               threshold |-> lowStockThreshold])
                    ELSE Return(m1, Void)
          IN IF r1.exc # NoError
             THEN r1
             ELSE Emit(r1.m, "order:inventory_reserved", orderData)

\* checkAndReserveItem that alerts only below the threshold: stock < lowStockThreshold
checkAndReserveItemStrictThreshold(m, orderData) ==
  LET name == Get(orderData, "item")
  IN IF name \notin DOMAIN m.inventory
     THEN Emit(m, "order:inventory_unavailable", orderData)
     ELSE IF m.inventory[name].stock <= 0
     THEN Emit(m, "order:out_of_stock", orderData)
     ELSE LET m1 == [m EXCEPT !.inventory[name].stock = @ - 1,
                              !.reservations = Put(@, Get(orderData, "orderId"),
                                   [item |-> name, quantity |-> 1,
                                    price |-> m.inventory[name].price,
                                    reservedAt |-> m.now, status |-> "reserved"])]
              r1 == IF m1.inventory[name].stock < lowStockThreshold
                    THEN Emit(m1, "inventory:low_stock",
                              [item |-> name, currentStock |-> m1.inventory[name].stock,
                               threshold |-> lowStockThreshold])
                    ELSE Return(m1, Void)
          IN IF r1.exc # NoError
             THEN r1
             ELSE Emit(r1.m, "order:inventory_reserved", orderData)

\* checkAndReserveItem that refuses only below zero: stock < 0
checkAndReserveItemBelowZero(m, orderData) ==
  LET name == Get(orderData, "item")
  IN IF name \notin DOMAIN m.inventory
     THEN Emit(m, "order:inventory_unavailable", orderData)
     ELSE IF m.inventory[name].stock < 0
     THEN Emit(m, "order:out_of_stock", orderData)
     ELSE LET m1 == [m EXCEPT !.inventory[name].stock = @ - 1,
                              !.reservations = Put(@, Get(orderData, "orderId"),
                                   [item |-> name, quantity |-> 1,
                                    price |-> m.inventory[name].price,
                                    reservedAt |-> m.now, status |-> "reserved"])]
              r1 == IF m1.inventory[name].stock <= lowStockThreshold
                    THEN Emit(m1, "inventory:low_stock",
                              [item |-> name, currentStock |-> m1.inventory[name].stock,
                               threshold |-> lowStockThreshold])
                    ELSE Return(m1, Void)
          IN IF r1.exc # NoError
             THEN r1
             ELSE Emit(r1.m, "order:inventory_reserved", orderData)

checkAndReserveItemReservedFirst(m, orderData) ==
  LET name == Get(orderData, "item")
  IN IF name \notin DOMAIN m.inventory
     THEN Emit(m, "order:inventory_unavailable", orderData)
     ELSE IF m.inventory[name].stock <= 0
     THEN Emit(m, "order:out_of_stock", orderData)
     ELSE LET m1 == [m EXCEPT !.inventory[name].stock = @ - 1,
                              !.reservations = Put(@, Get(orderData, "orderId"),
                                   [item |-> name, quantity |-> 1,
                                    price |-> m.inventory[name].price,
                                    reservedAt |-> m.now, status |-> "reserved"])]
              r1 == Emit(m1, "order:inventory_reserved", orderData)
          IN IF r1.exc # NoError \/ r1.m.inventory[name].stock > lowStockThreshold
             THEN r1
             ELSE Emit(r1.m, "inventory:low_stock",
                       [item |-> name, currentStock |-> r1.m.inventory[name].stock,
                        threshold |-> lowStockThreshold])

\* InventoryService.checkAndReserveItem
checkAndReserveItem(m, orderData) ==
  LET name == Get(orderData, "item")
  IN IF name \notin DOMAIN m.inventory
     THEN Emit(m, "order:inventory_unavailable", orderData)
     ELSE IF m.inventory[name].stock <= 0
     THEN Emit(m, "order:out_of_stock", orderData)
     ELSE LET m1 == [m EXCEPT !.inventory[name].stock = @ - 1,
                              !.reservations = Put(@, Get(orderData, "orderId"),
                                   [item |-> name, quantity |-> 1,
                                    price |-> m.inventory[name].price,
                                    reservedAt |-> m.now, status |-> "reserved"])]
              r1 == IF m1.inventory[name].stock <= lowStockThreshold
                    THEN Emit(m1, "inventory:low_stock",
                              [item |-> name, currentStock |-> m1.inventory[name].stock,
                               threshold |-> lowStockThreshold])
                    ELSE Return(m1, Void)
          IN IF r1.exc # NoError
             THEN r1
             ELSE Emit(r1.m, "order:inventory_reserved", orderData)

handleDeliveryReleases(m, shipmentData) ==
  LET orderId == Get(shipmentData, "orderId")
  IN IF orderId \in DOMAIN m.reservations
     THEN Return([m EXCEPT !.reservations = Del(@, orderId)], Void)
     ELSE Return(m, Void)

\* InventoryService.handleDelivery
handleDelivery(m, shipmentData) ==
  LET orderId == Get(shipmentData, "orderId")
  IN IF orderId \in DOMAIN m.reservations
     THEN Return([m EXCEPT !.reservations[orderId] =
                     Spread(@, [status |-> "fulfilled", fulfilledAt |-> m.now])],
                 Void)
     ELSE Return(m, Void)

addStockOldTotal(m, itemName, quantity) ==
  IF itemName \in DOMAIN m.inventory
  THEN LET m1 == [m EXCEPT !.inventory[itemName].stock = @ + quantity]
           r == Emit(m1, "inventory:stock_added",
                     [item |-> itemName, added |-> quantity,
                      total |-> m.inventory[itemName].stock])
       IN IF r.exc # NoError THEN r ELSE Return(r.m, Void)
  ELSE Return(m, Void)

\* InventoryService.addStock: item.stock += quantity, whatever the quantity
addStock(m, itemName, quantity) ==
  IF itemName \in DOMAIN m.inventory
  THEN LET m1 == [m EXCEPT !.inventory[itemName].stock = @ + quantity]
           r == Emit(m1, "inventory:stock_added",
                     [item |-> itemName, added |-> quantity,
                      total |-> m1.inventory[itemName].stock])
       IN IF r.exc # NoError THEN r ELSE Return(r.m, Void)
  ELSE Return(m, Void)

\* itemData.field || fallback for a number: absent or 0 gives the fallback
NumberOr(itemData, field, fallback) ==
  IF field \in DOMAIN itemData /\ itemData[field] # 0 THEN itemData[field] ELSE fallback

\* itemData.field || fallback for a string: absent or "" gives the fallback
StringOr(itemData, field, fallback) ==
  IF field \in DOMAIN itemData /\ itemData[field] # "" THEN itemData[field] ELSE fallback

\* InventoryService.addProduct: this.inventory.set(itemName, {...})
addProduct(m, itemName, itemData) ==
  LET m1 == [m EXCEPT !.inventory = Put(@, itemName,
                         [stock |-> NumberOr(itemData, "stock", 0),
                          price |-> NumberOr(itemData, "price", 0),
                          category |-> StringOr(itemData, "category", "general")])]
      r == Emit(m1, "inventory:product_added", Spread([item |-> itemName], itemData))
  IN IF r.exc # NoError THEN r ELSE Return(r.m, Void)

-----------------------------------------------------------------------------
(* Dispatch *)

\* listener(payload)
Call(m, listener, payload) ==
  CASE listener = "rec" -> Return(m, Void)
    [] listener = "boom" -> Throw(m, "Test error")
    [] listener = "adder" -> Return(On(m, "T1", "rec"), Void)
    [] listener = "remover" -> Return(Off(m, "T1", "rec"), Void)
    [] listener = "nested" -> Emit(m, "T2", payload)
    [] listener = "sendConfirmation" -> sendConfirmation(m, payload)
    [] listener = "sendShippingNotification" -> sendShippingNotification(m, payload)
    [] listener = "sendStatusUpdate" -> sendStatusUpdate(m, payload)
    [] listener = "processShipping" -> processShipping(m, payload)
    [] listener = "checkAndReserveItem" -> checkAndReserveItem(m, payload)
    [] listener = "handleDelivery" -> handleDelivery(m, payload)
    [] listener = "lowStockAlert" -> Return(m, Void)
    [] listener = "markDelivered" ->
         updateOrderStatus(m, Get(payload, "orderId"), "delivered")
    [] listener = "resubmit" -> createOrder(m, payload)
    [] listener = "observe" ->
         Return([m EXCEPT !.seen = Append(@, [p |-> payload,
                                              inventory |-> m.inventory,
                                              reservations |-> m.reservations])],
                Void)

\* for (k = 0; k < array.length; k++): the length is read again at every step
ForEachLive(m, a, k, len, eventName, payload, pass) ==
  IF k > Len(m.heap[a])
  THEN Return(m, Void)
  ELSE LET listener == m.heap[a][k]
           m1 == [m EXCEPT !.calls = Append(@, [l |-> listener, t |-> eventName,
                                                p |-> payload, pass |-> pass])]
           r == TryCatch(Call(m1, listener, payload), eventName)
       IN IF r.exc # NoError
          THEN r
          ELSE ForEach(r.m, a, k + 1, len, eventName, payload, pass)

\* this.events[eventName].forEach((listener) => { try ... catch ... }), at
\* index k of the array object a, for the emit numbered pass
ForEach(m, a, k, len, eventName, payload, pass) ==
  IF k > len
  THEN Return(m, Void)
  ELSE IF k > Len(m.heap[a])
  THEN ForEach(m, a, k + 1, len, eventName, payload, pass)
  ELSE LET listener == m.heap[a][k]
           m1 == [m EXCEPT !.calls = Append(@, [l |-> listener, t |-> eventName,
                                                p |-> payload, pass |-> pass])]
           r == TryCatch(Call(m1, listener, payload), eventName)
       IN IF r.exc # NoError
          THEN r
          ELSE ForEach(r.m, a, k + 1, len, eventName, payload, pass)

\* an emit that a listener makes is noted and dispatched to nobody
EmitOuterOnly(m, eventName, payload) ==
  LET m1 == [m EXCEPT !.pubs = Append(@, [t |-> eventName, p |-> payload])]
      pass == Len(m1.pubs)
  IN IF eventName \in DOMAIN m1.ev /\ m.pubs = <<>>
     THEN LET a == m1.ev[eventName]
          IN ForEach(m1, a, 1, ForEachLen(m1.heap[a]), eventName, payload, pass)
     ELSE Return(m1, Void)

\* an emit that returns before its listeners have run
EmitDeferred(m, eventName, payload) ==
  Return([m EXCEPT !.pubs = Append(@, [t |-> eventName, p |-> payload])], Void)

\* EventBus.emit
Emit(m, eventName, payload) ==
  LET m1 == [m EXCEPT !.pubs = Append(@, [t |-> eventName, p |-> payload])]
      pass == Len(m1.pubs)
  IN IF eventName \in DOMAIN m1.ev
     THEN LET a == m1.ev[eventName]
          IN ForEach(m1, a, 1, ForEachLen(m1.heap[a]), eventName, payload, pass)
     ELSE Return(m1, Void)

-----------------------------------------------------------------------------
(* Actions *)

\* the events with which checkAndReserveItem answers a reservation attempt
Answers == {"order:inventory_reserved", "order:out_of_stock", "order:inventory_unavailable"}

\* the answer each order got last, after the emits ps
RECURSIVE Answered(_, _)
Answered(f, ps) ==
  IF ps = <<>>
  THEN f
  ELSE Answered(IF ps[1].t \in Answers
                THEN Put(f, Get(ps[1].p, "orderId"), ps[1].t)
                ELSE f,
                Tail(ps))

\* no emit has been made yet; the emits of the events in follow will be kept
Following(follow) == [follow |-> follow, emits |-> <<>>]

\* the state a call leaves behind
Commit(r, call) ==
  /\ events' = Registry(r.m)
  /\ orders' = r.m.orders
  /\ sentEmails' = r.m.sentEmails
  /\ inventory' = r.m.inventory
  /\ reservations' = r.m.reservations
  /\ shipments' = r.m.shipments
  /\ timers' = r.m.timers
  /\ now' = r.m.now
  /\ op' = call
  /\ ret' = [exc |-> r.exc, val |-> r.val]
  /\ calls' = r.m.calls
  /\ pubs' = r.m.pubs
  /\ errs' = r.m.errs
  /\ faulted' = r.m.faulted
  /\ outcome' = Answered(outcome, r.m.pubs)
  /\ history' = [history EXCEPT
                   !.emits = @ \o SelectSeq(r.m.pubs, LAMBDA e : e.t \in history.follow)]
  /\ seen' = r.m.seen

\* eventBus.on(eventName, listener) called by a client
BusOn ==
  \E s \in BusSubscriptions :
    /\ Size(events) < MaxSubs
    /\ UNCHANGED updates
    /\ Commit(Return(On(Machine, s[1], s[2]), Void),
              [name |-> "on", t |-> s[1], l |-> s[2]])

\* eventBus.off(eventName, listener) called by a client
BusOff ==
  \E t \in BusTopics, l \in BusListeners :
    /\ UNCHANGED updates
    /\ Commit(Return(Off(Machine, t, l), Void),
              [name |-> "off", t |-> t, l |-> l])

\* eventBus.emit(eventName, payload) called by a client
BusEmit ==
  \E t \in BusTopics, p \in BusPayloads :
    LET r == Emit(Machine, t, p)
    IN /\ Size(Registry(r.m)) <= MaxSubs
       /\ UNCHANGED updates
       /\ Commit(r, [name |-> "emit", t |-> t, p |-> p])

\* new EventBus()
InitBus ==
  /\ events = EmptyMap
  /\ orders = EmptyMap
  /\ sentEmails = <<>>
  /\ inventory = EmptyMap
  /\ reservations = EmptyMap
  /\ shipments = EmptyMap
  /\ timers = <<>>
  /\ now = 0
  /\ op = [name |-> "new"]
  /\ ret = [exc |-> NoError, val |-> Void]
  /\ calls = <<>>
  /\ pubs = <<>>
  /\ errs = <<>>
  /\ faulted = {}
  /\ updates = 0
  /\ outcome = EmptyMap
  /\ history = Following({})
  /\ seen = <<>>

NextBus == BusOn \/ BusOff \/ BusEmit

SpecBus == InitBus /\ [][NextBus]_vars

-----------------------------------------------------------------------------
(* The assembled order system (index.js) *)

NewBus == [ev |-> EmptyMap, heap |-> <<>>]

\* EmailService.constructor
EmailServiceSubscribe(m) ==
  On(On(On(m, "order:created", "sendConfirmation"),
        "order:shipped", "sendShippingNotification"),
     "order:status_updated", "sendStatusUpdate")

\* ShippingService.constructor
ShippingServiceSubscribe(m) == On(m, "order:created", "processShipping")

\* InventoryService.constructor
InventoryServiceSubscribe(m) ==
  On(On(m, "order:created", "checkAndReserveItem"), "order:delivered", "handleDelivery")

\* initializeOrderSystem: the registry the constructors leave
initializeOrderSystem ==
  Registry(InventoryServiceSubscribe(ShippingServiceSubscribe(EmailServiceSubscribe(NewBus))))

Absent == "<absent>"

\* an order literal; a field given as Absent is not written
OrderData(orderId, email, item) ==
  LET given == [orderId |-> orderId, email |-> email, item |-> item, address |-> "1 Main St"]
  IN [f \in {x \in DOMAIN given : given[x] # Absent} |-> given[f]]

OrderIds == {"o1", "o2"}

Items == {"MacBook Pro", "Ghost"}

\* every complete order, and orders that lack one required field or carry ""
OrderInputs ==
  {OrderData(i, "a@x.com", t) : i \in OrderIds, t \in Items}
    \cup {OrderData(Absent, "a@x.com", "MacBook Pro"), OrderData("", "a@x.com", "MacBook Pro"),
          OrderData("o1", Absent, "MacBook Pro"), OrderData("o1", "a@x.com", Absent)}

Statuses == {"delivered", "processing"}

\* listeners a client adds to the assembled system
ExtraSubscriptions == {<<"order:created", "boom">>, <<"order:inventory_reserved", "rec">>}

RemoveAt(seq, i) == SubSeq(seq, 1, i - 1) \o SubSeq(seq, i + 1, Len(seq))

\* timers of one delay fire in the order they were set
FirstOfKind(i) == \A j \in 1..(i - 1) : timers[j].kind # timers[i].kind

\* the clock has moved on when the next call or timer reads it (read up to MaxTime)
Later(t) == IF t < MaxTime THEN t + 1 ELSE MaxTime

\* the machine a call or a timer callback of the system starts on
Clocked == [Machine EXCEPT !.now = Later(now)]

\* orderService.createOrder(orderData)
CreateOrder ==
  \E d \in OrderInputs :
    /\ UNCHANGED updates
    /\ Commit(createOrder(Clocked, d), [name |-> "createOrder", orderData |-> d])

\* orderService.updateOrderStatus(orderId, status)
UpdateOrderStatus ==
  \E id \in OrderIds, st \in Statuses :
    /\ updates < MaxUpdates
    /\ updates' = updates + 1
    /\ Commit(updateOrderStatus(Clocked, id, st),
              [name |-> "updateOrderStatus", orderId |-> id, status |-> st])

\* a pending timer fires
TimerFire ==
  \E i \in DOMAIN timers, random \in Randoms :
    /\ FirstOfKind(i)
    /\ UNCHANGED updates
    /\ LET m == [Clocked EXCEPT !.timers = RemoveAt(@, i)]
           t == timers[i]
       IN IF t.kind = "ship"
          THEN Commit(shipCallback(m, t.orderData, random),
                      [name |-> "shipTimer", orderId |-> Get(t.orderData, "orderId")])
          ELSE Commit(deliverCallback(m, t.orderId),
                      [name |-> "deliverTimer", orderId |-> t.orderId])

\* eventBus.on(eventName, listener) called by a client of the system
Subscribe ==
  \E s \in ExtraSubscriptions :
    /\ Count(Subscribers(events, s[1]), s[2]) = 0
    /\ UNCHANGED updates
    /\ Commit(Return(On(Machine, s[1], s[2]), Void),
              [name |-> "on", t |-> s[1], l |-> s[2]])

\* eventBus.off(eventName, listener) called by a client of the system
Unsubscribe ==
  \E s \in ExtraSubscriptions :
    /\ Count(Subscribers(events, s[1]), s[2]) > 0
    /\ UNCHANGED updates
    /\ Commit(Return(Off(Machine, s[1], s[2]), Void),
              [name |-> "off", t |-> s[1], l |-> s[2]])

Init ==
  /\ events = initializeOrderSystem
  /\ orders = EmptyMap
  /\ sentEmails = <<>>
  /\ inventory = InitialInventory
  /\ reservations = EmptyMap
  /\ shipments = EmptyMap
  /\ timers = <<>>
  /\ now = 0
  /\ op = [name |-> "new"]
  /\ ret = [exc |-> NoError, val |-> Void]
  /\ calls = <<>>
  /\ pubs = <<>>
  /\ errs = <<>>
  /\ faulted = {}
  /\ updates = 0
  /\ outcome = EmptyMap
  /\ history = Following({})
  /\ seen = <<>>

\* the calls a client makes before the first timer is due
Next ==
  \/ CreateOrder
  \/ UpdateOrderStatus
  \/ Subscribe
  \/ Unsubscribe

Spec == Init /\ [][Next]_vars

-----------------------------------------------------------------------------
(* The fulfilment saga in the system as runDemo wires it (index.js) *)

\* runDemo: initializeOrderSystem(), then the two listeners the demo registers:
\*   lowStockAlert   (data) => console.log(...)
\*   markDelivered   (shipmentData) => orderService.updateOrderStatus(shipmentData.orderId, "delivered")
runDemo ==
  Registry(On(On(InventoryServiceSubscribe(ShippingServiceSubscribe(
                   EmailServiceSubscribe(NewBus))),
                 "inventory:low_stock", "lowStockAlert"),
              "order:delivered", "markDelivered"))

\* an order for a stocked item and an order for a name the inventory lacks
SagaOrders == {OrderData("o1", "a@x.com", "MacBook Pro"), OrderData("o2", "a@x.com", "Ghost")}

SagaOrderIds == {d.orderId : d \in SagaOrders}

\* the events of an order's chain
SagaEvents == {"order:created", "order:inventory_reserved", "order:inventory_unavailable",
               "order:out_of_stock", "order:shipped", "order:delivered"}

\* orderService.createOrder(orderData) in the demo
SagaCreateOrder ==
  \E d \in SagaOrders :
    /\ UNCHANGED updates
    /\ Commit(createOrder(Clocked, d), [name |-> "createOrder", orderData |-> d])

InitSaga ==
  /\ events = runDemo
  /\ orders = EmptyMap
  /\ sentEmails = <<>>
  /\ inventory = InitialInventory
  /\ reservations = EmptyMap
  /\ shipments = EmptyMap
  /\ timers = <<>>
  /\ now = 0
  /\ op = [name |-> "new"]
  /\ ret = [exc |-> NoError, val |-> Void]
  /\ calls = <<>>
  /\ pubs = <<>>
  /\ errs = <<>>
  /\ faulted = {}
  /\ updates = 0
  /\ outcome = EmptyMap
  /\ history = Following(SagaEvents)
  /\ seen = <<>>

NextSaga == SagaCreateOrder \/ TimerFire

SpecSaga == InitSaga /\ [][NextSaga]_vars

\* what TimerFire does to the pending timers: the timer that fires is taken
\* out, and the callback of a ship timer sets the delivery timer of its order
TimerGone ==
  \E i \in DOMAIN timers :
    /\ FirstOfKind(i)
    /\ timers' = IF timers[i].kind = "ship"
                 THEN Append(RemoveAt(timers, i),
                             [kind |-> "deliver",
                              orderId |-> Get(timers[i].orderData, "orderId")])
                 ELSE RemoveAt(timers, i)

\* the event loop runs the callback of every timer that is due: a pending
\* timer does not stay pending forever
SpecSagaFair == SpecSaga /\ WF_timers(TimerGone)

\* The owner of the system begins to tear it down. initializeOrderSystem hands
\* out the bus and the services only, no service has a stop method and the
\* handles setTimeout returns are dropped: no code runs, the pending timers stay.
Shutdown ==
  /\ op.name # "shutdown"
  /\ UNCHANGED updates
  /\ Commit(Return(Machine, Void), [name |-> "shutdown"])

NextTeardown == SagaCreateOrder \/ TimerFire \/ Shutdown

SpecTeardown == InitSaga /\ [][NextTeardown]_vars

\* The system with a subscriber of order:created that calls
\* orderService.createOrder with the order it is handed; it subscribed before
\* the services were constructed or after them.
ResubmitFirst ==
  Registry(InventoryServiceSubscribe(ShippingServiceSubscribe(EmailServiceSubscribe(
             On(NewBus, "order:created", "resubmit")))))

ResubmitLast ==
  Registry(On(InventoryServiceSubscribe(ShippingServiceSubscribe(EmailServiceSubscribe(NewBus))),
              "order:created", "resubmit"))

InitReentrant ==
  /\ events \in {ResubmitFirst, ResubmitLast}
  /\ orders = EmptyMap
  /\ sentEmails = <<>>
  /\ inventory = InitialInventory
  /\ reservations = EmptyMap
  /\ shipments = EmptyMap
  /\ timers = <<>>
  /\ now = 0
  /\ op = [name |-> "new"]
  /\ ret = [exc |-> NoError, val |-> Void]
  /\ calls = <<>>
  /\ pubs = <<>>
  /\ errs = <<>>
  /\ faulted = {}
  /\ updates = 0
  /\ outcome = EmptyMap
  /\ history = Following({"order:created"})
  /\ seen = <<>>

SpecReentrant == InitReentrant /\ [][NextSaga]_vars

-----------------------------------------------------------------------------
(* The ShippingService on a bus of its own: new ShippingService(eventBus) *)

MaxTimers == 2    \* pending timers when order:created is published

ShippingOrderIds == {"o1", "o2"}

\* order:created is published for an order, by whoever holds the bus
ShippingOrderCreated ==
  \E id \in ShippingOrderIds :
    /\ Len(timers) < MaxTimers
    /\ UNCHANGED updates
    /\ Commit(Emit(Machine, "order:created", OrderData(id, "a@x.com", "MacBook Pro")),
              [name |-> "emit", t |-> "order:created",
               p |-> OrderData(id, "a@x.com", "MacBook Pro")])

InitShipping ==
  /\ events = Registry(ShippingServiceSubscribe(NewBus))
  /\ orders = EmptyMap
  /\ sentEmails = <<>>
  /\ inventory = EmptyMap
  /\ reservations = EmptyMap
  /\ shipments = EmptyMap
  /\ timers = <<>>
  /\ now = 0
  /\ op = [name |-> "new"]
  /\ ret = [exc |-> NoError, val |-> Void]
  /\ calls = <<>>
  /\ pubs = <<>>
  /\ errs = <<>>
  /\ faulted = {}
  /\ updates = 0
  /\ outcome = EmptyMap
  /\ history = Following({})
  /\ seen = <<>>

NextShipping == ShippingOrderCreated \/ TimerFire

SpecShipping == InitShipping /\ [][NextShipping]_vars

-----------------------------------------------------------------------------
(* The Inventory Ledger on a bus of its own: new InventoryService(eventBus) *)

MaxStock == 7     \* largest stock count that addStock and addProduct set
MaxDebt == 1      \* stock counts are followed down to -MaxDebt

LedgerOrderIds == {"o1", "o2"}

\* a product the constructor does not stock: unknown until addProduct adds it
LedgerItems == {"Ghost"}

\* quantities passed to addStock
Quantities == {1, -1}

\* item data passed to addProduct; a field that is not written is absent
ProductData == {[stock |-> 7, price |-> 100], [price |-> 100], [stock |-> -1, price |-> 100]}

\* the clock may or may not have moved on since the last call
Readings == {now, Later(now)}

\* the machine of a call that reads t from the clock
At(t) == [Machine EXCEPT !.now = t]

\* the stock counts that addStock and addProduct set are within the range that
\* is followed
InRange(m) ==
  \A i \in LedgerItems \cap DOMAIN m.inventory :
    m.inventory[i].stock >= 0 - MaxDebt /\ m.inventory[i].stock <= MaxStock

\* order:created is published for an order
LedgerOrderCreated ==
  \E id \in LedgerOrderIds, item \in LedgerItems, t \in Readings :
    /\ UNCHANGED updates
    /\ Commit(Emit(At(t), "order:created", OrderData(id, "a@x.com", item)),
              [name |-> "emit", t |-> "order:created",
               p |-> OrderData(id, "a@x.com", item)])

\* order:delivered is published for a shipment
LedgerOrderDelivered ==
  \E id \in LedgerOrderIds, t \in Readings :
    /\ UNCHANGED updates
    /\ Commit(Emit(At(t), "order:delivered", [orderId |-> id, status |-> "delivered"]),
              [name |-> "emit", t |-> "order:delivered",
               p |-> [orderId |-> id, status |-> "delivered"]])

\* inventoryService.addStock(itemName, quantity)
AddStock ==
  \E item \in LedgerItems, quantity \in Quantities :
    LET r == addStock(Machine, item, quantity)
    IN /\ InRange(r.m)
       /\ UNCHANGED updates
       /\ Commit(r, [name |-> "addStock", item |-> item, quantity |-> quantity])

\* inventoryService.addProduct(itemName, itemData)
AddProduct ==
  \E item \in LedgerItems, itemData \in ProductData :
    LET r == addProduct(Machine, item, itemData)
    IN /\ InRange(r.m)
       /\ UNCHANGED updates
       /\ Commit(r, [name |-> "addProduct", item |-> item, itemData |-> itemData])

\* new InventoryService(new EventBus())
InitLedger ==
  /\ events = Registry(InventoryServiceSubscribe(NewBus))
  /\ orders = EmptyMap
  /\ sentEmails = <<>>
  /\ inventory = InitialInventory
  /\ reservations = EmptyMap
  /\ shipments = EmptyMap
  /\ timers = <<>>
  /\ now = 0
  /\ op = [name |-> "new"]
  /\ ret = [exc |-> NoError, val |-> Void]
  /\ calls = <<>>
  /\ pubs = <<>>
  /\ errs = <<>>
  /\ faulted = {}
  /\ updates = 0
  /\ outcome = EmptyMap
  /\ history = Following({})
  /\ seen = <<>>

NextLedger ==
  \/ LedgerOrderCreated
  \/ LedgerOrderDelivered
  \/ AddStock
  \/ AddProduct

SpecLedger == InitLedger /\ [][NextLedger]_vars

\* the same service with a listener on each of the two events a reservation
\* publishes, which reads the inventory and the reservations when it is called
InitWatch ==
  /\ events = Registry(On(On(InventoryServiceSubscribe(NewBus),
                              "order:inventory_reserved", "observe"),
                           "inventory:low_stock", "observe"))
  /\ orders = EmptyMap
  /\ sentEmails = <<>>
  /\ inventory = InitialInventory
  /\ reservations = EmptyMap
  /\ shipments = EmptyMap
  /\ timers = <<>>
  /\ now = 0
  /\ op = [name |-> "new"]
  /\ ret = [exc |-> NoError, val |-> Void]
  /\ calls = <<>>
  /\ pubs = <<>>
  /\ errs = <<>>
  /\ faulted = {}
  /\ updates = 0
  /\ outcome = EmptyMap
  /\ history = Following({})
  /\ seen = <<>>

SpecWatch == InitWatch /\ [][NextLedger]_vars

-----------------------------------------------------------------------------
(* The assembled system with the stock of one item followed: orders come in
   through createOrder only, the client restocks through addStock and
   addProduct *)

MaxAdds == 2    \* addStock and addProduct calls that publish an event

StockItem == "MacBook Pro"

StockOrders == {OrderData("o1", "a@x.com", StockItem), OrderData("o2", "a@x.com", StockItem)}

StockEvents == {"order:inventory_reserved", "inventory:stock_added", "inventory:product_added"}

\* the events of history h that carry the item
EventsOf(h, eventName, item) ==
  {i \in DOMAIN h : h[i].t = eventName /\ Get(h[i].p, "item") = item}

StockCreateOrder ==
  \E d \in StockOrders :
    /\ UNCHANGED updates
    /\ Commit(createOrder(Clocked, d), [name |-> "createOrder", orderData |-> d])

StockAddStock ==
  \E quantity \in Quantities :
    /\ Len(SelectSeq(history.emits, LAMBDA e : e.t # "order:inventory_reserved")) < MaxAdds
    /\ UNCHANGED updates
    /\ Commit(addStock(Machine, StockItem, quantity),
              [name |-> "addStock", item |-> StockItem, quantity |-> quantity])

StockAddProduct ==
  \E itemData \in ProductData :
    /\ Len(SelectSeq(history.emits, LAMBDA e : e.t # "order:inventory_reserved")) < MaxAdds
    /\ UNCHANGED updates
    /\ Commit(addProduct(Machine, StockItem, itemData),
              [name |-> "addProduct", item |-> StockItem, itemData |-> itemData])

InitStock ==
  /\ events = runDemo
  /\ orders = EmptyMap
  /\ sentEmails = <<>>
  /\ inventory = InitialInventory
  /\ reservations = EmptyMap
  /\ shipments = EmptyMap
  /\ timers = <<>>
  /\ now = 0
  /\ op = [name |-> "new"]
  /\ ret = [exc |-> NoError, val |-> Void]
  /\ calls = <<>>
  /\ pubs = <<>>
  /\ errs = <<>>
  /\ faulted = {}
  /\ updates = 0
  /\ outcome = EmptyMap
  /\ history = Following(StockEvents)
  /\ seen = <<>>

NextStock == StockCreateOrder \/ TimerFire \/ StockAddStock \/ StockAddProduct

SpecStock == InitStock /\ [][NextStock]_vars

-----------------------------------------------------------------------------
(* Reservation attempts racing for the units of one item *)

RaceStock == 2    \* S: the units the item has when the attempts start

RaceItem == "Ghost"

\* N = 4 orders, each of which attempts once
RaceOrderIds == {"o1", "o2", "o3", "o4"}

\* order:created is published for an order that has not attempted yet
RaceAttempt ==
  \E id \in RaceOrderIds \ DOMAIN outcome, t \in Readings :
    /\ UNCHANGED updates
    /\ Commit(Emit(At(t), "order:created", OrderData(id, "a@x.com", RaceItem)),
              [name |-> "emit", t |-> "order:created",
               p |-> OrderData(id, "a@x.com", RaceItem)])

\* the machine new InventoryService(eventBus) leaves, before any call
NewLedger ==
  [ev |-> InventoryServiceSubscribe(NewBus).ev, heap |-> InventoryServiceSubscribe(NewBus).heap,
   orders |-> EmptyMap, sentEmails |-> <<>>, inventory |-> InitialInventory,
   reservations |-> EmptyMap, shipments |-> EmptyMap, timers |-> <<>>,
   now |-> 0, calls |-> <<>>, pubs |-> <<>>, errs |-> <<>>, faulted |-> {},
   seen |-> <<>>]

\* new InventoryService(eventBus), then addProduct(RaceItem, {stock: RaceStock, price: 100})
InitRace ==
  /\ events = Registry(InventoryServiceSubscribe(NewBus))
  /\ orders = EmptyMap
  /\ sentEmails = <<>>
  /\ inventory = addProduct(NewLedger, RaceItem, [stock |-> RaceStock, price |-> 100]).m.inventory
  /\ reservations = EmptyMap
  /\ shipments = EmptyMap
  /\ timers = <<>>
  /\ now = 0
  /\ op = [name |-> "new"]
  /\ ret = [exc |-> NoError, val |-> Void]
  /\ calls = <<>>
  /\ pubs = <<>>
  /\ errs = <<>>
  /\ faulted = {}
  /\ updates = 0
  /\ outcome = EmptyMap
  /\ history = Following({})
  /\ seen = <<>>

NextRace == RaceAttempt

SpecRace == InitRace /\ [][NextRace]_vars

-----------------------------------------------------------------------------
(* Properties of the EventBus *)

\* the invocations made by the forEach of the emit numbered pass
PassCalls(cs, pass) == SelectSeq(cs, LAMBDA c : c.pass = pass)

\* the listeners those invocations ran, in invocation order
PassListeners(cs, pass) == [i \in DOMAIN PassCalls(cs, pass) |-> PassCalls(cs, pass)[i].l]

Invoked(cs, listener) == \E i \in DOMAIN cs : cs[i].l = listener

\* C1: when a subscriber of T throws during emit(T, payload), every subscriber
\* of T is still invoked with the payload in that emit, and emit returns
\* normally to its caller.
C1_FaultIsolated ==
  [][(op'.name = "emit" /\ Count(Subscribers(events, op'.t), "boom") > 0)
       => /\ PassListeners(calls', 1) = Subscribers(events, op'.t)
          /\ \A i \in DOMAIN PassCalls(calls', 1) : PassCalls(calls', 1)[i].p = op'.p
          /\ ret'.exc = NoError
          /\ Len(errs') >= Count(Subscribers(events, op'.t), "boom")]_vars

\* a listener threw between two other subscribers, which both ran
C1_Witness ==
  /\ op.name = "emit"
  /\ ret.exc = NoError
  /\ PassListeners(calls, 1) = <<"rec", "boom", "rec">>
  /\ Len(errs) = 1

\* C2: a throwing listener leaves the registry as it was, and every emit made
\* after a listener has thrown still delivers to all subscribers of its event,
\* the listener that threw among them.
C2_ThrowKeepsRegistry ==
  [][/\ (op'.name = "emit" /\ errs' # <<>>
          /\ ~Invoked(calls', "adder") /\ ~Invoked(calls', "remover"))
        => events' = events
     /\ (op'.name = "emit" /\ faulted # {})
        => PassListeners(calls', 1) = Subscribers(events, op'.t)]_vars

\* boom threw for T1 in an earlier emit and is invoked again by a later emit of T2
C2_Witness ==
  /\ op.name = "emit"
  /\ op.t = "T2"
  /\ "T1" \in faulted
  /\ Invoked(calls, "boom")
  /\ Invoked(calls, "rec")
  /\ events["T2"] = PassListeners(calls, 1)

\* C3: when listeners subscribe or unsubscribe listeners of T while emit(T) is
\* dispatching, the pass invokes exactly the listeners subscribed to T when
\* emit was called.
C3_SnapshotDispatch ==
  [][(op'.name = "emit" /\ op'.t = "T1"
      /\ (Invoked(PassCalls(calls', 1), "adder") \/ Invoked(PassCalls(calls', 1), "remover")))
       => PassListeners(calls', 1) = Subscribers(events, "T1")]_vars

\* rec was subscribed again and then unsubscribed during the pass: it ran once,
\* and is not subscribed afterwards
C3_Witness ==
  /\ op.name = "emit"
  /\ PassListeners(calls, 1) = <<"adder", "remover", "rec">>
  /\ events["T1"] = <<"adder", "remover">>

\* C4: emit(T, payload) invokes the listeners subscribed to T once per
\* subscription, in subscription order, and no listener of another event.
C4_SubscriptionOrder ==
  [][/\ op'.name = "emit"
        => /\ PassListeners(calls', 1) = Subscribers(events, op'.t)
           /\ \A i \in DOMAIN PassCalls(calls', 1) : PassCalls(calls', 1)[i].t = op'.t
     /\ (op'.name = "on" /\ op'.t \in DOMAIN events)
        => events'[op'.t] = Append(events[op'.t], op'.l)]_vars

\* two listeners of T1 ran in their subscription order while T2 has a
\* subscriber that is not invoked
C4_Witness ==
  /\ op.name = "emit"
  /\ op.t = "T1"
  /\ PassListeners(calls, 1) = <<"rec", "boom">>
  /\ "T2" \in DOMAIN events
  /\ Len(calls) = 2

\* C6: off(T, h) removes h from T and nothing else, an emptied event leaves
\* the active events, every active event has a subscriber, and emit on an
\* event without subscribers invokes nothing and changes nothing.
C6_OffAndEmptyEmit ==
  /\ [](\A t \in getEvents : Len(events[t]) >= 1)
  /\ [][/\ op'.name = "off"
            => LET kept == SelectSeq(Subscribers(events, op'.t), LAMBDA l : l # op'.l)
               IN /\ Subscribers(events', op'.t) = kept
                  /\ (op'.t \in DOMAIN events') = (kept # <<>>)
                  /\ \A t \in (DOMAIN events \cup DOMAIN events') \ {op'.t} :
                        Subscribers(events', t) = Subscribers(events, t)
         /\ (op'.name = "emit" /\ op'.t \notin getEvents)
            => /\ calls' = <<>>
               /\ ret'.exc = NoError
               /\ UNCHANGED <<events, orders, sentEmails, inventory, reservations,
                              shipments, timers, faulted>>]_vars

\* off emptied T1 while T2 keeps its subscriber
C6_Witness ==
  /\ op.name = "off"
  /\ op.t = "T1"
  /\ getEvents = {"T2"}
  /\ faulted # {}

-----------------------------------------------------------------------------
(* Properties of the Order Registry in the assembled system *)

MissingFields == "Missing required order fields: orderId, email, item"

AlreadyExists == "Order already exists"

\* the emits of eventName among ps that carry the orderId id
Published(ps, eventName, id) ==
  SelectSeq(ps, LAMBDA e : e.t = eventName /\ Get(e.p, "orderId") = id)

\* the listeners invoked for eventName with a payload carrying the orderId id
Delivered(cs, eventName, id) ==
  LET hit == SelectSeq(cs, LAMBDA c : c.t = eventName /\ Get(c.p, "orderId") = id)
  IN [i \in DOMAIN hit |-> hit[i].l]

Complete(orderData) ==
  ~Falsy(orderData, "orderId") /\ ~Falsy(orderData, "email") /\ ~Falsy(orderData, "item")

\* C5: emit returns after every subscriber has run: when createOrder returns
\* for an item in stock, every subscriber of order:created has been invoked, the
\* confirmation email is recorded, and order:inventory_reserved has been
\* published and delivered to each of its listeners.
C5_SynchronousDispatch ==
  [][(/\ op'.name = "createOrder"
      /\ ret'.exc = NoError
      /\ op'.orderData.item \in DOMAIN inventory
      /\ inventory[op'.orderData.item].stock > 0)
       => LET id == op'.orderData.orderId
          IN /\ PassListeners(calls', 1) = Subscribers(events, "order:created")
             /\ \E i \in DOMAIN sentEmails' :
                  /\ i > Len(sentEmails)
                  /\ sentEmails'[i].type = "confirmation"
                  /\ sentEmails'[i].orderId = id
             /\ Len(Published(pubs', "order:inventory_reserved", id)) = 1
             /\ Delivered(calls', "order:inventory_reserved", id)
                  = Subscribers(events, "order:inventory_reserved")]_vars

\* createOrder returned for a MacBook Pro and the client's listener of
\* order:inventory_reserved has already run
C5_Witness ==
  /\ op.name = "createOrder"
  /\ ret.exc = NoError
  /\ op.orderData.item = "MacBook Pro"
  /\ Delivered(calls, "order:inventory_reserved", op.orderData.orderId) = <<"rec">>
  /\ sentEmails[Len(sentEmails)].type = "confirmation"
  /\ sentEmails[Len(sentEmails)].orderId = op.orderData.orderId

\* C7: createOrder without orderId, email or item fails with the validation
\* error, leaves the order map as it was and publishes nothing.
C7_ValidationRejects ==
  [][(op'.name = "createOrder" /\ ~Complete(op'.orderData))
       => /\ ret'.exc = MissingFields
          /\ orders' = orders
          /\ pubs' = <<>>
          /\ calls' = <<>>]_vars

\* an order without email was rejected while another order was stored
C7_Witness ==
  /\ op.name = "createOrder"
  /\ "email" \notin DOMAIN op.orderData
  /\ ret.exc = MissingFields
  /\ DOMAIN orders = {"o2"}

\* C8 as stated: createOrder with a stored orderId fails with the duplicate
\* error whatever the rest of the payload is, the stored record stays and
\* order:created is not published.
C8_DuplicateAnyPayload ==
  [][(op'.name = "createOrder" /\ Get(op'.orderData, "orderId") \in DOMAIN orders)
       => /\ ret'.exc = AlreadyExists
          /\ orders' = orders
          /\ pubs' = <<>>]_vars

\* C8 amended: createOrder with a stored orderId fails, with the duplicate
\* error when email and item are present and with the validation error when
\* one of them is missing; the stored record stays as it was and order:created
\* is not published.  A stored orderId stays stored, and no call publishes
\* order:created twice, so order:created is published at most once per orderId.
C8_DuplicateRejected ==
  [][/\ (op'.name = "createOrder" /\ Get(op'.orderData, "orderId") \in DOMAIN orders)
        => /\ ret'.exc = (IF Complete(op'.orderData) THEN AlreadyExists ELSE MissingFields)
           /\ orders' = orders
           /\ pubs' = <<>>
     /\ \A id \in DOMAIN orders :
          /\ id \in DOMAIN orders'
          /\ Published(pubs', "order:created", id) = <<>>
     /\ \A id \in DOMAIN orders' : Len(Published(pubs', "order:created", id)) <= 1]_vars

\* a second createOrder for o1, asking for another item, was refused after
\* the status of o1 had been updated
C8_Witness ==
  /\ op.name = "createOrder"
  /\ ret.exc = AlreadyExists
  /\ op.orderData.orderId = "o1"
  /\ op.orderData.item # orders["o1"].item
  /\ orders["o1"].status = "delivered"

\* C9: createOrder with complete data and a fresh orderId stores the data
\* with status "created" and a timestamp, publishes order:created once with
\* that record and returns it, whether or not a subscriber throws.
C9_CreateStoresPublishesReturns ==
  [][(/\ op'.name = "createOrder"
      /\ Complete(op'.orderData)
      /\ op'.orderData.orderId \notin DOMAIN orders)
       => LET id == op'.orderData.orderId
          IN /\ id \in DOMAIN orders'
             /\ orders'[id].status = "created"
             /\ "timestamp" \in DOMAIN orders'[id]
             /\ orders'[id].timestamp = now'
             /\ \A f \in DOMAIN op'.orderData : orders'[id][f] = op'.orderData[f]
             /\ Len(Published(pubs', "order:created", id)) = 1
             /\ Published(pubs', "order:created", id)[1].p = orders'[id]
             /\ pubs'[1].t = "order:created"
             /\ ret'.exc = NoError
             /\ ret'.val = orders'[id]
             /\ \A other \in DOMAIN orders : orders'[other] = orders[other]]_vars

\* createOrder returned the stored record although a subscriber of
\* order:created threw
C9_Witness ==
  /\ op.name = "createOrder"
  /\ ret.exc = NoError
  /\ ret.val = orders[op.orderData.orderId]
  /\ Invoked(calls, "boom")
  /\ errs # <<>>
  /\ Cardinality(DOMAIN orders) = 2

\* C10: updateOrderStatus with an unknown orderId changes no order and
\* publishes nothing; with a known orderId it sets status and lastUpdated of
\* that order, publishes order:status_updated once with {orderId, status,
\* order}, and leaves the other orders as they were.
C10_UpdateOrderStatus ==
  [][op'.name = "updateOrderStatus"
       => LET id == op'.orderId
          IN IF id \notin DOMAIN orders
             THEN /\ orders' = orders
                  /\ pubs' = <<>>
                  /\ sentEmails' = sentEmails
             ELSE /\ DOMAIN orders' = DOMAIN orders
                  /\ orders'[id].status = op'.status
                  /\ orders'[id].lastUpdated = now'
                  /\ \A f \in DOMAIN orders[id] \ {"status", "lastUpdated"} :
                       orders'[id][f] = orders[id][f]
                  /\ pubs' = <<[t |-> "order:status_updated",
                                p |-> [orderId |-> id, status |-> op'.status,
                                       order |-> orders'[id]]]>>
                  /\ \A other \in DOMAIN orders \ {id} : orders'[other] = orders[other]]_vars

\* the status of o1 was set while o2 was stored too
C10_Witness ==
  /\ op.name = "updateOrderStatus"
  /\ op.orderId = "o1"
  /\ DOMAIN orders = {"o1", "o2"}
  /\ orders["o1"].status = "processing"
  /\ orders["o1"].lastUpdated > orders["o1"].timestamp
  /\ orders["o2"].status = "created"
  /\ Len(pubs) = 1

-----------------------------------------------------------------------------
(* Properties of the Inventory Ledger *)

\* C11: in every state reachable by reservations, delivery handling, addStock
\* with any quantity and addProduct with any data, the stock of every item is a
\* non-negative integer.
C11_StockNonNegative == \A i \in DOMAIN inventory : inventory[i].stock \in Nat

\* the orders whose reservation attempt was answered by the event answer
AnsweredBy(answer) == {id \in DOMAIN outcome : outcome[id] = answer}

Min(a, b) == IF a < b THEN a ELSE b

\* C12: of N reservation attempts with distinct orderIds against an item with
\* S units, the first S succeed and the others are answered out_of_stock; once
\* N > S there are exactly S reservations and N - S refusals, and the stock is 0.
C12_RaceForUnits ==
  LET N == Cardinality(DOMAIN outcome)
      won == Cardinality(AnsweredBy("order:inventory_reserved"))
      lost == Cardinality(AnsweredBy("order:out_of_stock"))
  IN /\ won = Min(N, RaceStock)
     /\ lost = N - won
     /\ DOMAIN reservations = AnsweredBy("order:inventory_reserved")
     /\ \A id \in DOMAIN reservations :
          reservations[id].item = RaceItem /\ reservations[id].status = "reserved"
     /\ inventory[RaceItem].stock = RaceStock - won
     /\ N > RaceStock => inventory[RaceItem].stock = 0

\* all four orders have attempted: two hold a reservation, two were refused
C12_Witness ==
  /\ DOMAIN outcome = RaceOrderIds
  /\ Cardinality(DOMAIN reservations) = RaceStock
  /\ Cardinality(AnsweredBy("order:out_of_stock")) = Cardinality(RaceOrderIds) - RaceStock
  /\ Cardinality(RaceOrderIds) > RaceStock
  /\ inventory[RaceItem].stock = 0

\* the number of emits of eventName among the emits ps
PubCount(ps, eventName) == Cardinality({i \in DOMAIN ps : ps[i].t = eventName})

\* C13: a reservation attempt for an item with stock > 0 takes exactly 1 off
\* that item's stock, stores one reservation under the orderId (status reserved,
\* quantity 1, the item's current price), publishes order:inventory_reserved
\* exactly once, and leaves every other item and reservation as it was.
C13_ReserveOnce ==
  [][\A item \in DOMAIN inventory :
       (op'.name = "emit" /\ op'.t = "order:created" /\ op'.p.item = item
        /\ inventory[item].stock > 0)
         => /\ inventory' = [inventory EXCEPT ![item].stock = @ - 1]
            /\ reservations' = Put(reservations, op'.p.orderId,
                                   [item |-> item, quantity |-> 1,
                                    price |-> inventory[item].price,
                                    reservedAt |-> now', status |-> "reserved"])
            /\ PubCount(pubs', "order:inventory_reserved") = 1
            /\ \E i \in DOMAIN pubs' : pubs'[i] = [t |-> "order:inventory_reserved", p |-> op'.p]
            /\ ret'.exc = NoError]_vars

\* o2 reserved a unit of the product while o1 holds its reservation
C13_Witness ==
  /\ op.name = "emit"
  /\ op.t = "order:created"
  /\ op.p.orderId = "o2"
  /\ PubCount(pubs, "order:inventory_reserved") = 1
  /\ DOMAIN reservations = {"o1", "o2"}
  /\ reservations["o2"].status = "reserved"
  /\ reservations["o2"].price = 100
  /\ inventory["Ghost"].stock = 5

\* C14: a reservation attempt for a known item whose stock is 0 changes no
\* stock count and no reservation, publishes order:out_of_stock, and publishes
\* neither order:inventory_reserved nor inventory:low_stock.
C14_OutOfStock ==
  [][\A item \in DOMAIN inventory :
       (op'.name = "emit" /\ op'.t = "order:created" /\ op'.p.item = item
        /\ inventory[item].stock = 0)
         => /\ inventory' = inventory
            /\ reservations' = reservations
            /\ PubCount(pubs', "order:out_of_stock") = 1
            /\ \E i \in DOMAIN pubs' : pubs'[i] = [t |-> "order:out_of_stock", p |-> op'.p]
            /\ PubCount(pubs', "order:inventory_reserved") = 0
            /\ PubCount(pubs', "inventory:low_stock") = 0
            /\ ret'.exc = NoError]_vars

\* the product has no units left and o1's attempt was refused
C14_Witness ==
  /\ op.name = "emit"
  /\ op.t = "order:created"
  /\ op.p.orderId = "o1"
  /\ "Ghost" \in DOMAIN inventory
  /\ inventory["Ghost"].stock = 0
  /\ "o1" \notin DOMAIN reservations
  /\ PubCount(pubs, "order:out_of_stock") = 1

\* C15: a reservation attempt for a name that is not in the inventory
\* publishes order:inventory_unavailable with the order data and nothing else,
\* and changes no stock count and no reservation.
C15_UnknownItem ==
  [][(op'.name = "emit" /\ op'.t = "order:created" /\ op'.p.item \notin DOMAIN inventory)
       => /\ inventory' = inventory
          /\ reservations' = reservations
          /\ pubs' = <<[t |-> "order:created", p |-> op'.p],
                       [t |-> "order:inventory_unavailable", p |-> op'.p]>>
          /\ ret'.exc = NoError]_vars

\* o2 asked for a product nobody has added, and nothing was reserved
C15_Witness ==
  /\ op.name = "emit"
  /\ op.t = "order:created"
  /\ op.p.orderId = "o2"
  /\ "Ghost" \notin DOMAIN inventory
  /\ PubCount(pubs, "order:inventory_unavailable") = 1
  /\ reservations = EmptyMap

\* C16: a successful reservation publishes inventory:low_stock, once and with
\* the item, the stock after the decrement and the threshold, exactly when the
\* stock after the decrement is at or below the threshold.
C16_LowStockBoundary ==
  [][\A item \in DOMAIN inventory :
       (op'.name = "emit" /\ op'.t = "order:created" /\ op'.p.item = item
        /\ PubCount(pubs', "order:inventory_reserved") > 0)
         => IF inventory'[item].stock <= lowStockThreshold
            THEN /\ PubCount(pubs', "inventory:low_stock") = 1
                 /\ \E i \in DOMAIN pubs' :
                      pubs'[i] = [t |-> "inventory:low_stock",
                                  p |-> [item |-> item,
                                         currentStock |-> inventory'[item].stock,
                                         threshold |-> lowStockThreshold]]
            ELSE PubCount(pubs', "inventory:low_stock") = 0]_vars

\* o1 reserved down to threshold + 1 without an alert, then o2 reserved down to
\* exactly the threshold and the alert was published
C16_Witness ==
  /\ op.name = "emit"
  /\ op.t = "order:created"
  /\ op.p.orderId = "o2"
  /\ PubCount(pubs, "inventory:low_stock") = 1
  /\ PubCount(pubs, "order:inventory_reserved") = 1
  /\ inventory[op.p.item].stock = lowStockThreshold
  /\ "o1" \in DOMAIN reservations
  /\ reservations["o1"].status = "reserved"
  /\ reservations["o2"].reservedAt > reservations["o1"].reservedAt

\* C17: order:delivered for an orderId without a reservation, or with a
\* reservation that is already fulfilled, raises no error and changes nothing
\* in the ledger: status and fulfilledAt of a fulfilled reservation stay.
C17_DeliveryIdempotent ==
  [][(op'.name = "emit" /\ op'.t = "order:delivered"
      /\ (op'.p.orderId \in DOMAIN reservations
            => reservations[op'.p.orderId].status = "fulfilled"))
       => /\ reservations' = reservations
          /\ inventory' = inventory
          /\ ret'.exc = NoError
          /\ errs' = <<>>]_vars

-----------------------------------------------------------------------------
(* Properties of the fulfilment saga *)

\* createOrder stored the order and its item was in stock: a unit is reserved
InStockOrder(id) == id \in DOMAIN orders /\ id \in DOMAIN reservations

ShipmentIs(id, status) == id \in DOMAIN shipments /\ shipments[id].status = status

\* the shipment is delivered, the reservation fulfilled, the order delivered
SagaDone(id) ==
  /\ ShipmentIs(id, "delivered")
  /\ id \in DOMAIN reservations
  /\ reservations[id].status = "fulfilled"
  /\ id \in DOMAIN orders
  /\ orders[id].status = "delivered"

\* C18: after createOrder for an in-stock item, when due timers fire, the
\* order's shipment comes to exist with status shipped and later is delivered,
\* with the reservation fulfilled and the stored order's status "delivered".
C18_SagaCompletes ==
  \A id \in SagaOrderIds :
    /\ (InStockOrder(id) /\ id \notin DOMAIN shipments) ~> ShipmentIs(id, "shipped")
    /\ (InStockOrder(id) /\ ShipmentIs(id, "shipped")) ~> SagaDone(id)
    /\ InStockOrder(id) ~> SagaDone(id)

\* the delivery timer of o1 has fired: its saga is complete
C18_Witness ==
  /\ op.name = "deliverTimer"
  /\ op.orderId = "o1"
  /\ SagaDone("o1")
  /\ orders["o1"].item = "MacBook Pro"

\* C19: a shipment exists for an order only if a reservation exists for it:
\* an order whose reservation attempt was answered order:inventory_unavailable
\* or order:out_of_stock is never shipped or delivered.
C19_ShippedOnlyIfReserved ==
  \A id \in DOMAIN shipments :
    /\ id \in DOMAIN reservations
    /\ id \in DOMAIN outcome
    /\ outcome[id] = "order:inventory_reserved"

\* C20: a shipment record, once created, is only ever changed by its delivery:
\* it stays under its orderId with its tracking number, and its status goes
\* from shipped to delivered and never back.
C20_ShipmentMonotone ==
  [][\A id \in DOMAIN shipments :
       /\ id \in DOMAIN shipments'
       /\ \/ shipments'[id] = shipments[id]
          \/ /\ shipments[id].status = "shipped"
             /\ shipments'[id] = Spread(shipments[id],
                                        [status |-> "delivered", deliveredAt |-> now'])]_vars

\* the positions in the emits h at which eventName was published for the order id
EmitsOf(h, eventName, id) ==
  {i \in DOMAIN h : h[i].t = eventName /\ Get(h[i].p, "orderId") = id}

\* C21: the events of one order are published in causal order: its inventory
\* answer and its order:shipped only after its order:created, and its
\* order:delivered only after its order:shipped.
C21_CausalOrder ==
  \A j \in DOMAIN history.emits :
    LET e == history.emits[j]
        id == Get(e.p, "orderId")
    IN /\ e.t \in Answers \cup {"order:shipped"}
          => \E i \in EmitsOf(history.emits, "order:created", id) : i < j
       /\ e.t = "order:delivered"
          => \E i \in EmitsOf(history.emits, "order:shipped", id) : i < j

\* the whole chain of o1 has been published, with the events of o2 in between
C21_Witness ==
  /\ EmitsOf(history.emits, "order:delivered", "o1") # {}
  /\ EmitsOf(history.emits, "order:inventory_reserved", "o1") # {}
  /\ EmitsOf(history.emits, "order:shipped", "o2") # {}
  /\ \E i \in EmitsOf(history.emits, "order:created", "o2") :
       \E j \in EmitsOf(history.emits, "order:delivered", "o1") : i < j

\* a timer of the given kind is pending for the order id
Pending(ts, kind, id) ==
  \E i \in DOMAIN ts :
    /\ ts[i].kind = kind
    /\ id = (IF kind = "ship" THEN Get(ts[i].orderData, "orderId") ELSE ts[i].orderId)

\* C22: shipping and delivery are future tasks: when createOrder returns, the
\* order has no shipment, order:shipped has not been published and its shipping
\* timer is pending; the dispatch of order:shipped does not publish
\* order:delivered, it leaves the shipment shipped and the delivery timer pending.
C22_DeferredSteps ==
  [][/\ (op'.name = "createOrder" /\ ret'.exc = NoError)
        => /\ op'.orderData.orderId \notin DOMAIN shipments'
           /\ PubCount(pubs', "order:shipped") = 0
           /\ PubCount(pubs', "order:delivered") = 0
           /\ Pending(timers', "ship", op'.orderData.orderId)
     /\ op'.name = "shipTimer"
        => /\ PubCount(pubs', "order:shipped") = 1
           /\ PubCount(pubs', "order:delivered") = 0
           /\ op'.orderId \in DOMAIN shipments'
           /\ shipments'[op'.orderId].status = "shipped"
           /\ Pending(timers', "deliver", op'.orderId)]_vars

\* createOrder has returned the order o1: its shipping timer is pending and no
\* shipment exists
C22_Witness ==
  /\ op.name = "createOrder"
  /\ ret.exc = NoError
  /\ op.orderData.orderId = "o1"
  /\ Pending(timers, "ship", "o1")
  /\ shipments = EmptyMap
  /\ PubCount(pubs, "order:created") = 1

\* C23: a reservation is never deleted; its status changes only from reserved
\* to fulfilled and only when order:delivered is handled for its orderId; a
\* delivery for one orderId leaves the reservations of the others as they were.
C23_ReservationLifecycle ==
  [][\A id \in DOMAIN reservations :
       /\ id \in DOMAIN reservations'
       /\ reservations'[id].status # reservations[id].status
            => /\ reservations[id].status = "reserved"
               /\ reservations'[id].status = "fulfilled"
               /\ op'.name = "emit"
               /\ op'.t = "order:delivered"
               /\ op'.p.orderId = id
       /\ (op'.name = "emit" /\ op'.t = "order:delivered" /\ op'.p.orderId # id)
            => reservations'[id] = reservations[id]]_vars

\* C24: pending shipping and delivery steps are cancellable: the step that
\* follows the beginning of the teardown creates or changes no shipment and
\* publishes neither order:shipped nor order:delivered.
C24_NoStepAfterTeardown ==
  [][op.name = "shutdown"
       => /\ shipments' = shipments
          /\ PubCount(pubs', "order:shipped") = 0
          /\ PubCount(pubs', "order:delivered") = 0]_vars

\* the events a reservation publishes, in the order of their emit calls
ReservationEvents(ps) ==
  SelectSeq(ps, LAMBDA e : e.t \in {"order:inventory_reserved", "inventory:low_stock"})

\* the step handled order:created by reserving a unit
Reserved(o, ps) ==
  o.name = "emit" /\ o.t = "order:created" /\ PubCount(ps, "order:inventory_reserved") = 1

\* each listener of the two events ran once and read the stock of the item
\* and the reservation of the order as the reservation left them
ObservedReserved(log, ps, stock, item, id) ==
  /\ Len(log) = Len(ReservationEvents(ps))
  /\ \A k \in DOMAIN log :
       /\ log[k].p = ReservationEvents(ps)[k].p
       /\ log[k].inventory[item].stock = stock
       /\ id \in DOMAIN log[k].reservations
       /\ log[k].reservations[id].status = "reserved"

LowStockEvent(item, stock) ==
  [t |-> "inventory:low_stock",
   p |-> [item |-> item, currentStock |-> stock, threshold |-> lowStockThreshold]]

\* C25 as stated: a reservation decrements the stock, creates the reservation,
\* publishes order:inventory_reserved and then, at or below the threshold,
\* inventory:low_stock; the listeners of both read the decremented stock and
\* the reservation.
C25_ReservedThenLowStock ==
  [][Reserved(op', pubs')
       => LET item == op'.p.item
              id == op'.p.orderId
              stock == inventory[item].stock - 1
              reserved == [t |-> "order:inventory_reserved", p |-> op'.p]
          IN /\ inventory'[item].stock = stock
             /\ id \in DOMAIN reservations'
             /\ reservations'[id].status = "reserved"
             /\ ReservationEvents(pubs') =
                  IF stock <= lowStockThreshold
                  THEN <<reserved, LowStockEvent(item, stock)>>
                  ELSE <<reserved>>
             /\ ObservedReserved(seen', pubs', stock, item, id)]_vars

\* C25, amended: at or below the threshold inventory:low_stock is published
\* first and order:inventory_reserved after it; the rest is as stated.
C25_LowStockThenReserved ==
  [][Reserved(op', pubs')
       => LET item == op'.p.item
              id == op'.p.orderId
              stock == inventory[item].stock - 1
              reserved == [t |-> "order:inventory_reserved", p |-> op'.p]
          IN /\ inventory'[item].stock = stock
             /\ id \in DOMAIN reservations'
             /\ reservations'[id].status = "reserved"
             /\ ReservationEvents(pubs') =
                  IF stock <= lowStockThreshold
                  THEN <<LowStockEvent(item, stock), reserved>>
                  ELSE <<reserved>>
             /\ ObservedReserved(seen', pubs', stock, item, id)]_vars

C25_Witness ==
  /\ Reserved(op, pubs)
  /\ Len(ReservationEvents(pubs)) = 2
  /\ Len(seen) = 2
  /\ seen[1].p = [item |-> op.p.item, currentStock |-> lowStockThreshold,
                  threshold |-> lowStockThreshold]
  /\ seen[1].inventory[op.p.item].stock = lowStockThreshold
  /\ seen[2].p = op.p

\* C26: addStock on a known item adds exactly the quantity to the stock of that
\* item and publishes inventory:stock_added with added = the quantity and
\* total = the new stock, and leaves the reservations and the other items as
\* they were; addStock on an unknown item changes nothing and publishes nothing.
C26_AddStockFrame ==
  [][op'.name = "addStock"
       => /\ reservations' = reservations
          /\ UNCHANGED <<events, orders, sentEmails, shipments, timers>>
          /\ IF op'.item \in DOMAIN inventory
             THEN /\ inventory' = [inventory EXCEPT
                                     ![op'.item].stock = @ + op'.quantity]
                  /\ pubs' = <<[t |-> "inventory:stock_added",
                                p |-> [item |-> op'.item, added |-> op'.quantity,
                                       total |-> inventory'[op'.item].stock]]>>
             ELSE /\ inventory' = inventory
                  /\ pubs' = <<>>]_vars

C26_Witness ==
  /\ op.name = "addStock"
  /\ op.quantity = 1
  /\ reservations # EmptyMap
  /\ PubCount(pubs, "inventory:stock_added") = 1
  /\ pubs[1].p.total = inventory[op.item].stock
  /\ pubs[1].p.total = lowStockThreshold + 1

\* the quantities the inventory:stock_added events of history h report for the item
RECURSIVE AddedTotal(_, _)
AddedTotal(h, item) ==
  IF h = <<>>
  THEN 0
  ELSE AddedTotal(Tail(h), item)
       + (IF Head(h).t = "inventory:stock_added" /\ Head(h).p.item = item
          THEN Head(h).p.added
          ELSE 0)

ReservationsFor(item) == {id \in DOMAIN reservations : reservations[id].item = item}

Conserved(item) ==
  /\ InitialInventory[item].stock + AddedTotal(history.emits, item) - inventory[item].stock
       = Cardinality(ReservationsFor(item))
  /\ Cardinality(ReservationsFor(item))
       = Cardinality(EventsOf(history.emits, "order:inventory_reserved", item))

\* C27 as stated: with createOrder the only publisher of order:created, for
\* every item, initial stock + quantity added by addStock - current stock is
\* the number of reservation records of the item, which is the number of
\* order:inventory_reserved events published for it.
C27_StockConservation ==
  \A item \in DOMAIN InitialInventory : Conserved(item)

\* C27, amended: the same for every item addProduct has not been called for.
C27_ConservationWithoutAddProduct ==
  \A item \in DOMAIN InitialInventory :
    EventsOf(history.emits, "inventory:product_added", item) = {} => Conserved(item)

C27_Witness ==
  /\ EventsOf(history.emits, "inventory:product_added", StockItem) = {}
  /\ AddedTotal(history.emits, StockItem) = 2
  /\ Cardinality(ReservationsFor(StockItem)) = 2
  /\ inventory[StockItem].stock = InitialInventory[StockItem].stock
  /\ \E id \in ReservationsFor(StockItem) : reservations[id].status = "fulfilled"

\* C28: the order is stored before order:created is dispatched: a subscriber
\* of order:created that calls createOrder with the same orderId gets the
\* duplicate error, which the bus catches; the registry holds one record for
\* the orderId, the one createOrder returns, and order:created is dispatched
\* once for it.
C28_ReentrantCreateRejected ==
  /\ [][(op'.name = "createOrder" /\ ret'.exc = NoError)
          => LET id == op'.orderData.orderId
             IN /\ PubCount(pubs', "order:created") = 1
                /\ Cardinality({i \in DOMAIN calls' : calls'[i].l = "resubmit"}) = 1
                /\ Cardinality({i \in DOMAIN calls' : calls'[i].l = "checkAndReserveItem"}) = 1
                /\ errs' = <<[t |-> "order:created", error |-> "Order already exists"]>>
                /\ DOMAIN orders' = DOMAIN orders \cup {id}
                /\ id \notin DOMAIN orders
                /\ orders'[id] = ret'.val]_vars
  /\ [](\A id \in DOMAIN orders : Cardinality(EmitsOf(history.emits, "order:created", id)) = 1)

C28_Witness ==
  /\ op.name = "createOrder"
  /\ ret.exc = NoError
  /\ errs = <<[t |-> "order:created", error |-> "Order already exists"]>>
  /\ calls[1].l = "resubmit"
  /\ Len(calls) > 1
  /\ DOMAIN orders = {"o1", "o2"}

\* the listener calls of emit("T1", payload) when the listeners of T1 are outer
\* and those of T2 are inner, from the listener at index i on: each listener of
\* T1 in turn, and after a listener that emits T2 every listener of T2
RECURSIVE DepthFirst(_, _, _, _, _)
DepthFirst(outer, inner, payload, i, emits) ==
  IF i > Len(outer)
  THEN <<>>
  ELSE LET c == [l |-> outer[i], t |-> "T1", p |-> payload, pass |-> 1]
       IN IF outer[i] = "nested"
          THEN <<c>>
               \o [j \in DOMAIN inner |->
                     [l |-> inner[j], t |-> "T2", p |-> payload, pass |-> emits + 1]]
               \o DepthFirst(outer, inner, payload, i + 1, emits + 1)
          ELSE <<c>> \o DepthFirst(outer, inner, payload, i + 1, emits)

\* no listener of the registry subscribes or unsubscribes while it runs
Settled(reg) ==
  \A t \in DOMAIN reg : \A i \in DOMAIN reg[t] : reg[t][i] \notin {"adder", "remover"}

\* C29: re-entrant dispatch is depth-first: when a listener of T1 emits T2,
\* every listener of T2 runs before the next listener of T1 is called, the
\* nested emit returns, and the listeners of T1 that remain are called in
\* subscription order; the calls of one emit are never interleaved with the
\* calls of an emit that began before it.
C29_DepthFirstDispatch ==
  [][op'.name = "emit"
       => /\ ret'.exc = NoError
          /\ \A i, j, k \in DOMAIN calls' :
               (i < j /\ j < k /\ calls'[i].pass = calls'[k].pass)
                 => calls'[j].pass >= calls'[i].pass
          /\ (op'.t = "T1" /\ Settled(events))
               => calls' = DepthFirst(Subscribers(events, "T1"), Subscribers(events, "T2"),
                                      op'.p, 1, 1)]_vars

C29_Witness ==
  /\ op.name = "emit"
  /\ op.t = "T1"
  /\ Len(calls) = 3
  /\ calls[1].l = "nested" /\ calls[1].pass = 1
  /\ calls[2].t = "T2" /\ calls[2].pass = 2
  /\ calls[3].t = "T1" /\ calls[3].pass = 1
  /\ ret.exc = NoError

====
